---------------------------- MODULE Spec2Model ----------------------------
(***************************************************************************)
(* react-pin-input: the Container (PinInput) and its Cells (PinItem).      *)
(*                                                                         *)
(* A string is a sequence of one-character strings; a cell is named by its *)
(* index 0..Length-1 as in the source.  Every event handler runs to        *)
(* completion (React flushes the state updates of a handler before the     *)
(* next event), so one handler is one action and the closures a handler    *)
(* reads are those of the latest render.  setTimeout callbacks are tasks   *)
(* of their own: the zero-delay notifications run in the order they were   *)
(* scheduled; the reveal-hide timers all carry the same positive delay, so *)
(* they too run in scheduling order, and never before a notification that  *)
(* was scheduled no later than they were.                                  *)
(* Timer ids are kept as the one bit the code can observe: whether the     *)
(* cell's ref still names the timer ("live").                              *)
(***************************************************************************)
EXTENDS Integers, Sequences, FiniteSets

VARIABLES
    type,          \* prop type: "numeric" or any other (free-form) input type
    secret,        \* prop secret
    secretDelay,   \* prop secretDelay of the latest render
    status,        \* "mounted", "crashed" (the first render threw), "unmounted"
    value,         \* PinItem state `value`, per cell
    showSecret,    \* PinItem state `showSecret`, per cell
    valuesRef,     \* PinInput valuesRef.current
    focusIndex,    \* the cell whose input holds the DOM focus, or NoFocus
    inputTimers,   \* pending zero-delay notifications, in scheduling order
    secretTimers,  \* pending reveal-hide timers, in scheduling order
    calls,         \* invocations of the props onChange / onComplete since
                   \* the latest user or host operation
    mountProps,    \* history: the props of the first render
    lastOp,        \* history: the latest user or host operation
    nOps,          \* history: number of user / host operations so far
    typed          \* history: the characters typed in an in-order typing run

vars == <<type, secret, secretDelay, status, value, showSecret, valuesRef,
          focusIndex, inputTimers, secretTimers, calls, mountProps, lastOp,
          nOps, typed>>

(***************************************************************************)
(* Sizes.                                                                  *)
(***************************************************************************)
Length == 4
MaxOps == 2
SecretDelayMs == 500
NoFocus == -1

Cells == 0 .. (Length - 1)
Empty == << >>

\* length-many copies of one character
Fill(c, n) == [k \in 1 .. n |-> c]

\* what the user can leave in an <input maxLength=1> by one keystroke
RawInputs == {Empty, <<"1">>, <<"2">>, <<"a">>, <<"-">>}
Digits == {"1", "2", "3"}
\* clipboard texts: two of the right length, one too short, one too long
Pastes == {Fill("1", Length), <<"a">> \o Fill("2", Length - 1),
           Fill("1", Length - 1), Fill("2", Length + 1)}
InitialValues == {Empty, <<"a">> \o Fill("1", Length - 1)}

(***************************************************************************)
(* PinItem.validateValue (without a custom validator).                     *)
(***************************************************************************)
charCodeAt(c) ==
    CASE c = "-" -> 45
      [] c = "/" -> 47
      [] c = "0" -> 48
      [] c = "1" -> 49
      [] c = "2" -> 50
      [] c = "3" -> 51
      [] c = "9" -> 57
      [] c = ":" -> 58
      [] c = "@" -> 64
      [] c = "A" -> 65
      [] c = "Z" -> 90
      [] c = "[" -> 91
      [] c = "_" -> 95
      [] c = "a" -> 97
      [] c = "z" -> 122
      [] c = "{" -> 123

toUpperCase(s) ==
    [k \in 1 .. Len(s) |->
        CASE s[k] = "a" -> "A"
          [] s[k] = "z" -> "Z"
          [] OTHER -> s[k]]

\* /^[a-zA-Z0-9]+$/.test(s)
regexCriteria(s) ==
    /\ Len(s) > 0
    /\ \A k \in 1 .. Len(s) :
          LET n == charCodeAt(s[k])
          IN  \/ (n >= 48 /\ n <= 57)
              \/ (n >= 65 /\ n <= 90)
              \/ (n >= 97 /\ n <= 122)

\* a slip: the digit range starts one code point late
validateValueLate(rawValue) ==
    IF type = "numeric"
    THEN IF rawValue = Empty
         THEN Empty
         ELSE LET numCode == charCodeAt(rawValue[1])
                  isDigit == numCode > 48 /\ numCode <= 57
              IN  IF isDigit THEN rawValue ELSE Empty
    ELSE IF regexCriteria(rawValue) THEN toUpperCase(rawValue) ELSE Empty

validateValue(rawValue) ==
    IF type = "numeric"
    THEN IF rawValue = Empty
         THEN Empty
         ELSE LET numCode == charCodeAt(rawValue[1])
                  isDigit == numCode >= 48 /\ numCode <= 57
              IN  IF isDigit THEN rawValue ELSE Empty
    ELSE IF regexCriteria(rawValue) THEN toUpperCase(rawValue) ELSE Empty

(***************************************************************************)
(* Timers.                                                                 *)
(***************************************************************************)
\* the cells of S in index order (forEach over elementsRef.current)
\* a slip: the cells visited from the last to the first
RECURSIVE Descending(_, _)
Descending(S, i) ==
    IF i >= Length THEN << >>
    ELSE Descending(S, i + 1) \o (IF i \in S THEN <<i>> ELSE << >>)

RECURSIVE Ascending(_, _)
Ascending(S, i) ==
    IF i >= Length THEN << >>
    ELSE (IF i \in S THEN <<i>> ELSE << >>) \o Ascending(S, i + 1)

\* clearTimeout(ref.current): the timer the ref names, if still pending
clearTimeout(ts) == SelectSeq(ts, LAMBDA t : ~t.live)

\* clearTimeout(secretTimeoutRef.current) of cell i
clearSecretTimeout(ts, i) == SelectSeq(ts, LAMBDA t : ~(t.cell = i /\ t.live))

\* PinItem.setSecretDelayed of cell i: the pending reveal-hide timers after it
setSecretDelayed(ts, i, val) ==
    Append(clearSecretTimeout(ts, i),
           [cell |-> i, val |-> val, live |-> TRUE, op |-> nOps + 1])

\* validateValue's call of setSecretDelayed, for the cells of S in index order
RECURSIVE SecretDelayed(_, _, _)
SecretDelayed(ts, order, raw) ==
    IF order = << >> THEN ts
    ELSE SecretDelayed(setSecretDelayed(ts, Head(order), raw[Head(order)]),
                       Tail(order), raw)

\* PinItem.update: does the call adopt the validated value and notify?
updateWrites(i, updatedValue, isPasting) ==
    LET validated == validateValue(updatedValue)
    IN  /\ ~(validated = value[i] /\ ~isPasting)
        /\ Len(validated) < 2

\* a slip: no notification when the cell was emptied
ScheduledIfFilled(S, raw, isPasting) ==
    LET order == Ascending(S, 0)
    IN  SelectSeq([k \in 1 .. Len(order) |->
                      [cell |-> order[k], value |-> validateValue(raw[order[k]]),
                       isPasting |-> isPasting, live |-> TRUE, op |-> nOps + 1]],
                  LAMBDA t : t.value # Empty)

\* the notifications scheduled by update on the cells of S in index order
Scheduled(S, raw, isPasting) ==
    LET order == Ascending(S, 0)
    IN  [k \in 1 .. Len(order) |->
            [cell |-> order[k], value |-> validateValue(raw[order[k]]),
             isPasting |-> isPasting, live |-> TRUE, op |-> nOps + 1]]

\* inputTimeoutRef.current = setTimeout(...) for the cells of S
ScheduleInput(ts, S, raw, isPasting) ==
    [k \in 1 .. Len(ts) |->
        IF ts[k].cell \in S THEN [ts[k] EXCEPT !.live = FALSE] ELSE ts[k]]
    \o Scheduled(S, raw, isPasting)

(***************************************************************************)
(* PinItem.update applied to the cells of S (one cell for a keystroke,     *)
(* every cell in index order for a paste), raw[i] the character for cell i.*)
(***************************************************************************)
update(S, raw, isPasting) ==
    LET W == {i \in S : updateWrites(i, raw[i], isPasting)}
    IN  /\ value' = [i \in Cells |->
                        IF i \in W THEN validateValue(raw[i]) ELSE value[i]]
        /\ inputTimers' = ScheduleInput(inputTimers, W, raw, isPasting)
        /\ IF secretDelay > 0
           THEN /\ showSecret' = [i \in Cells |->
                                     IF i \in S THEN FALSE ELSE showSecret[i]]
                /\ secretTimers' = SecretDelayed(secretTimers, Ascending(S, 0), raw)
           ELSE UNCHANGED <<showSecret, secretTimers>>

(***************************************************************************)
(* PinInput.onItemChange.                                                  *)
(***************************************************************************)
RECURSIVE JoinFrom(_, _)
JoinFrom(a, i) == IF i >= Length THEN << >> ELSE a[i] \o JoinFrom(a, i + 1)
Join(a) == JoinFrom(a, 0)

\* a slip: the advance stops one cell early
currentIndexOfShort(v, index) ==
    IF Len(v) = 1 /\ index < Length - 2 THEN index + 1 ELSE index

\* the index the handler reports, after the optional advance
currentIndexOf(v, index) ==
    IF Len(v) = 1 /\ index < Length - 1 THEN index + 1 ELSE index

\* a slip: no suppression during a paste cascade
completesEveryPaste(pin, isPasting, index) == Len(pin) = Length

\* a slip: completion one slot early
completesEarly(pin, isPasting, index) ==
    /\ Len(pin) >= Length - 1
    /\ ~(isPasting /\ index < Length - 1)

\* a slip: completion as soon as anything is entered
completesNonEmpty(pin, isPasting, index) ==
    /\ Len(pin) > 0
    /\ ~(isPasting /\ index < Length - 1)

\* does the handler call onComplete?
completes(pin, isPasting, index) ==
    /\ Len(pin) = Length
    /\ ~(isPasting /\ index < Length - 1)

\* PinItem.focusInput: inputRef.current?.focus()
focusInput(i) == IF status = "mounted" THEN i ELSE focusIndex

\* a slip: onChange without the isPasting test
onItemChangeAlways(v, isPasting, index, op) ==
    LET codes == [valuesRef EXCEPT ![index] = v]
        currentIndex == currentIndexOf(v, index)
        pin == Join(codes)
    IN  /\ valuesRef' = codes
        /\ focusIndex' = IF currentIndex # index
                         THEN focusInput(currentIndex) ELSE focusIndex
        /\ calls' = calls
              \o <<[cb |-> "onChange", pin |-> pin,
                    index |-> currentIndex, isPasting |-> isPasting,
                    op |-> op]>>
              \o (IF completes(pin, isPasting, index)
                  THEN <<[cb |-> "onComplete", pin |-> pin,
                          index |-> currentIndex, isPasting |-> isPasting,
                          op |-> op]>>
                  ELSE << >>)

onItemChange(v, isPasting, index, op) ==
    LET codes == [valuesRef EXCEPT ![index] = v]
        currentIndex == currentIndexOf(v, index)
        pin == Join(codes)
    IN  /\ valuesRef' = codes
        /\ focusIndex' = IF currentIndex # index
                         THEN focusInput(currentIndex) ELSE focusIndex
        /\ calls' = calls
              \o (IF ~isPasting
                  THEN <<[cb |-> "onChange", pin |-> pin,
                          index |-> currentIndex, isPasting |-> isPasting,
                          op |-> op]>>
                  ELSE << >>)
              \o (IF completes(pin, isPasting, index)
                  THEN <<[cb |-> "onComplete", pin |-> pin,
                          index |-> currentIndex, isPasting |-> isPasting,
                          op |-> op]>>
                  ELSE << >>)

(***************************************************************************)
(* Construction: the first render and the mount effects.                   *)
(***************************************************************************)
\* initialValue.toString()[i] || ""
initialChar(initialValue, i) ==
    IF i + 1 <= Len(initialValue) THEN <<initialValue[i + 1]>> ELSE Empty

\* useState(() => validateValue(initialValue)) runs validateValue while the
\* const setSecretDelayed declared below it is not yet initialised: with a
\* truthy secretDelay the call throws and the widget never mounts.
mountThrows(delay) == delay > 0

Mount(t, s, delay, initialValue, focus) ==
    /\ type = t
    /\ secret = s
    /\ secretDelay = delay
    /\ mountProps = [type |-> t, secret |-> s, secretDelay |-> delay,
                     initialValue |-> initialValue, focus |-> focus]
    /\ valuesRef = [i \in Cells |-> initialChar(initialValue, i)]
    /\ inputTimers = << >>
    /\ secretTimers = << >>
    /\ calls = << >>
    /\ lastOp = [op |-> "mount", cell |-> NoFocus, raw |-> initialValue]
    /\ nOps = 0
    /\ typed = << >>
    /\ IF mountThrows(delay)
       THEN /\ status = "crashed"
            /\ value = [i \in Cells |-> Empty]
            /\ showSecret = [i \in Cells |-> FALSE]
            /\ focusIndex = NoFocus
       ELSE /\ status = "mounted"
            /\ value = [i \in Cells |-> validateValue(initialChar(initialValue, i))]
            /\ showSecret = [i \in Cells |-> s]
            /\ focusIndex = IF focus /\ Length > 0 THEN 0 ELSE NoFocus

Init ==
    \E t \in {"numeric", "text"}, s \in BOOLEAN, delay \in {0, SecretDelayMs},
       initialValue \in InitialValues, focus \in BOOLEAN :
        Mount(t, s, delay, initialValue, focus)

(***************************************************************************)
(* Handlers.                                                               *)
(***************************************************************************)
\* PinItem.handleChange: a keystroke leaves `raw` in the focused input
handleChange(i, raw) ==
    /\ status = "mounted"
    /\ focusIndex = i
    /\ update({i}, [j \in {i} |-> raw], FALSE)
    /\ calls' = << >>
    /\ UNCHANGED <<type, secret, secretDelay, status, valuesRef, focusIndex,
                   mountProps>>

\* PinInput.handleBackspace
handleBackspace(index) ==
    focusIndex' = IF index > 0 THEN focusInput(index - 1) ELSE focusIndex

\* a slip: the emptiness test is dropped
handleKeyDownAlways(i) ==
    /\ status = "mounted"
    /\ focusIndex = i
    /\ handleBackspace(i)
    /\ calls' = << >>
    /\ UNCHANGED <<type, secret, secretDelay, status, value, showSecret,
                   valuesRef, inputTimers, secretTimers, mountProps>>

\* PinItem.handleKeyDown with keyCode 8
handleKeyDown(i) ==
    /\ status = "mounted"
    /\ focusIndex = i
    /\ IF value[i] = Empty
       THEN handleBackspace(i)
       ELSE UNCHANGED focusIndex
    /\ calls' = << >>
    /\ UNCHANGED <<type, secret, secretDelay, status, value, showSecret,
                   valuesRef, inputTimers, secretTimers, mountProps>>

\* a slip: only a text that is too short is discarded
containerPasteAtLeast(pastedValue) ==
    IF Len(pastedValue) < Length
    THEN UNCHANGED <<value, showSecret, inputTimers, secretTimers>>
    ELSE update(Cells, [i \in Cells |-> <<pastedValue[i + 1]>>], TRUE)

\* PinInput.handlePaste
containerPaste(pastedValue) ==
    IF Len(pastedValue) # Length
    THEN UNCHANGED <<value, showSecret, inputTimers, secretTimers>>
    ELSE update(Cells, [i \in Cells |-> <<pastedValue[i + 1]>>], TRUE)

\* PinItem.handlePaste: only the first cell is given onPaste
handlePaste(i, pastedValue) ==
    /\ status = "mounted"
    /\ focusIndex = i
    /\ IF i = 0
       THEN containerPaste(pastedValue)
       ELSE UNCHANGED <<value, showSecret, inputTimers, secretTimers>>
    /\ calls' = << >>
    /\ UNCHANGED <<type, secret, secretDelay, status, valuesRef, focusIndex,
                   mountProps>>

\* PinItem.handleFocus: the user moves the focus to cell i
handleFocus(i) ==
    /\ status = "mounted"
    /\ focusIndex # i
    /\ focusIndex' = i
    /\ calls' = << >>
    /\ UNCHANGED <<type, secret, secretDelay, status, value, showSecret,
                   valuesRef, inputTimers, secretTimers, mountProps>>

\* a slip: the tracking array is not reset
clearCellsOnly ==
    /\ status = "mounted"
    /\ value' = [i \in Cells |-> Empty]
    /\ focusIndex' = focusInput(0)
    /\ calls' = << >>
    /\ UNCHANGED <<type, secret, secretDelay, status, showSecret, inputTimers,
                   secretTimers, mountProps, valuesRef>>

\* PinInput.clear (the imperative handle)
clear ==
    /\ status = "mounted"
    /\ value' = [i \in Cells |-> Empty]
    /\ valuesRef' = [i \in Cells |-> Empty]
    /\ focusIndex' = focusInput(0)
    /\ calls' = << >>
    /\ UNCHANGED <<type, secret, secretDelay, status, showSecret, inputTimers,
                   secretTimers, mountProps>>

\* PinInput.focusFirstInput (the imperative handle)
focusFirstInput ==
    /\ status = "mounted"
    /\ focusIndex' = IF Length > 0 THEN focusInput(0) ELSE focusIndex
    /\ calls' = << >>
    /\ UNCHANGED <<type, secret, secretDelay, status, value, showSecret,
                   valuesRef, inputTimers, secretTimers, mountProps>>

\* the host renders the widget again with another secretDelay
Rerender(delay) ==
    /\ status = "mounted"
    /\ delay # secretDelay
    /\ secretDelay' = delay
    /\ calls' = << >>
    /\ UNCHANGED <<type, secret, status, value, showSecret, valuesRef,
                   focusIndex, inputTimers, secretTimers, mountProps>>

\* the effect cleanup of every PinItem, on removal from the tree
cleanup ==
    /\ status = "mounted"
    /\ status' = "unmounted"
    /\ inputTimers' = clearTimeout(inputTimers)
    /\ secretTimers' = clearTimeout(secretTimers)
    /\ focusIndex' = NoFocus
    /\ UNCHANGED <<type, secret, secretDelay, value, showSecret, valuesRef,
                   mountProps, calls>>

\* the oldest pending notification runs: onChange(validated, isPasting)
notify ==
    /\ inputTimers # << >>
    /\ LET t == Head(inputTimers)
       IN  /\ onItemChange(t.value, t.isPasting, t.cell, t.op)
    /\ inputTimers' = Tail(inputTimers)
    /\ UNCHANGED <<type, secret, secretDelay, status, value, showSecret,
                   secretTimers, mountProps>>

\* the oldest pending reveal-hide timer runs: setShowSecret(Boolean(val))
hide ==
    /\ secretTimers # << >>
    /\ LET t == Head(secretTimers)
       IN  /\ \A k \in 1 .. Len(inputTimers) : inputTimers[k].op > t.op
           /\ showSecret' = IF status = "mounted"
                            THEN [showSecret EXCEPT ![t.cell] = (t.val # Empty)]
                            ELSE showSecret
    /\ secretTimers' = Tail(secretTimers)
    /\ UNCHANGED <<type, secret, secretDelay, status, value, valuesRef,
                   focusIndex, inputTimers, mountProps, calls>>

(***************************************************************************)
(* The next-state relation: user and host operations (bounded, recorded in *)
(* the history variables) and timer tasks.  No handler of an operation     *)
(* invokes a callback itself, so each restarts the log `calls` empty.      *)
(***************************************************************************)
Record(op, cell, raw) ==
    /\ nOps < MaxOps
    /\ nOps' = nOps + 1
    /\ lastOp' = [op |-> op, cell |-> cell, raw |-> raw]
    /\ UNCHANGED typed

Keystroke == \E i \in Cells, raw \in RawInputs :
                handleChange(i, raw) /\ Record("key", i, raw)
Backspace == \E i \in Cells : handleKeyDown(i) /\ Record("backspace", i, Empty)
Paste == \E i \in Cells, s \in Pastes : handlePaste(i, s) /\ Record("paste", i, s)
Click == \E i \in Cells : handleFocus(i) /\ Record("click", i, Empty)
Clear == clear /\ Record("clear", NoFocus, Empty)
Focus == focusFirstInput /\ Record("focus", NoFocus, Empty)
Props == \E delay \in {0, SecretDelayMs} :
            Rerender(delay) /\ Record("props", NoFocus, Empty)
\* the unmount ends the widget's life: it is not counted against MaxOps
Unmount == cleanup /\ lastOp' = [op |-> "unmount", cell |-> NoFocus, raw |-> Empty]
           /\ UNCHANGED <<nOps, typed>>
Notify == notify /\ UNCHANGED <<lastOp, nOps, typed>>
Hide == hide /\ UNCHANGED <<lastOp, nOps, typed>>

Next ==
    \/ Keystroke
    \/ Backspace
    \/ Paste
    \/ Click
    \/ Clear
    \/ Focus
    \/ Props
    \/ Unmount
    \/ Notify
    \/ Hide

Spec == Init /\ [][Next]_vars

(***************************************************************************)
(* The typing run: a numeric widget mounted empty with auto-focus; the     *)
(* user types one digit per cell in index order, each keystroke only after *)
(* the notification of the one before has been delivered.                  *)
(***************************************************************************)
InitTyping == \E s \in BOOLEAN : Mount("numeric", s, 0, Empty, TRUE)

Type == \E d \in Digits :
            /\ inputTimers = << >>
            /\ Len(typed) < Length
            /\ handleChange(Len(typed), <<d>>)
            /\ typed' = Append(typed, d)
            /\ nOps' = nOps + 1
            /\ lastOp' = [op |-> "key", cell |-> Len(typed), raw |-> <<d>>]

NextTyping ==
    \/ Type
    \/ Notify

SpecTyping == InitTyping /\ [][NextTyping]_vars

(***************************************************************************)
(* Steps, as the properties below recognise them.                          *)
(***************************************************************************)
OpStep(kind) == nOps' = nOps + 1 /\ lastOp'.op = kind

NotifyStep ==
    /\ inputTimers # << >>
    /\ inputTimers' = Tail(inputTimers)
    /\ status' = status
    /\ nOps' = nOps

HideStep ==
    /\ secretTimers # << >>
    /\ secretTimers' = Tail(secretTimers)
    /\ status' = status
    /\ nOps' = nOps

\* the validated form of a pasted text, per cell
Normalized(s) == [i \in Cells |-> validateValue(<<s[i + 1]>>)]

\* the latest operation was a paste, into the first cell, of a text of the
\* configured length whose every character is valid
ValidPaste ==
    /\ lastOp.op = "paste"
    /\ lastOp.cell = 0
    /\ Len(lastOp.raw) = Length
    /\ \A i \in Cells : validateValue(<<lastOp.raw[i + 1]>>) # Empty

\* the callbacks `cb` of the log that come from notifications of operation n
CallsOf(cb, n) == SelectSeq(calls, LAMBDA c : c.cb = cb /\ c.op = n)

(***************************************************************************)
(* C1: after a paste of exactly Length valid characters, once every        *)
(* deferred notification has been delivered (and nothing else was done     *)
(* meanwhile), every cell and every slot of the Code array holds its       *)
(* normalized character, and the paste's notifications have invoked        *)
(* onComplete exactly once, with the normalized text and index Length-1,   *)
(* and onChange never.                                                     *)
(***************************************************************************)
C1_PasteFillsAndCompletesOnce ==
    (ValidPaste /\ inputTimers = << >>) =>
        /\ value = Normalized(lastOp.raw)
        /\ valuesRef = Normalized(lastOp.raw)
        /\ CallsOf("onChange", nOps) = << >>
        /\ CallsOf("onComplete", nOps) =
              <<[cb |-> "onComplete", pin |-> Join(Normalized(lastOp.raw)),
                 index |-> Length - 1, isPasting |-> TRUE, op |-> nOps]>>
        /\ calls[Len(calls)].cb = "onComplete"

C1_Witness ==
    /\ ValidPaste
    /\ inputTimers = << >>
    /\ type = "text"
    /\ value[0] = <<"A">>
    /\ mountProps.initialValue # Empty
    /\ Len(CallsOf("onComplete", nOps)) = 1

(***************************************************************************)
(* C2: a keystroke never moves the focus itself; a keystroke that enters a *)
(* valid character into cell i < Length-1 schedules a notification, and    *)
(* the delivery of a keystroke's one-character notification moves the      *)
(* focus to cell i+1 when i < Length-1 and nowhere when i = Length-1.      *)
(* The claim as stated holds this whatever the cell held before; the code  *)
(* does so only when the validated character differs from the cell's value.*)
(***************************************************************************)
KeySchedules(onlyIfChanged) ==
    LET i == lastOp'.cell
        v == validateValue(lastOp'.raw)
    IN  OpStep("key") =>
          /\ focusIndex' = focusIndex
          /\ (Len(v) = 1 /\ i < Length - 1 /\ (onlyIfChanged => v # value[i])) =>
                /\ Len(inputTimers') = Len(inputTimers) + 1
                /\ inputTimers'[Len(inputTimers')].cell = i
                /\ inputTimers'[Len(inputTimers')].value = v
                /\ ~inputTimers'[Len(inputTimers')].isPasting

NotifyAdvances ==
    (NotifyStep /\ status = "mounted" /\ ~Head(inputTimers).isPasting
       /\ Len(Head(inputTimers).value) = 1) =>
        focusIndex' = IF Head(inputTimers).cell < Length - 1
                      THEN Head(inputTimers).cell + 1
                      ELSE focusIndex

C2_Original == [][KeySchedules(FALSE) /\ NotifyAdvances]_vars

C2_KeystrokeAdvancesFocus == [][KeySchedules(TRUE) /\ NotifyAdvances]_vars

\* a filled cell was overwritten with another character and the focus moved on
C2_Witness ==
    /\ lastOp.op = "key"
    /\ lastOp.cell = 1
    /\ nOps = 2
    /\ mountProps.initialValue # Empty
    /\ value[1] = <<"2">>
    /\ valuesRef[1] = <<"2">>
    /\ inputTimers = << >>
    /\ focusIndex = 2

(***************************************************************************)
(* C3 (typing run): the k-th keystroke invokes nothing itself; once its    *)
(* notification is delivered it has invoked onChange exactly once, with    *)
(* the first k digits typed, and onComplete exactly once after it, with    *)
(* the full pin and index Length-1, if and only if k = Length.  The log    *)
(* restarts at each keystroke, so over the run onChange is invoked Length  *)
(* times and onComplete once.                                              *)
(***************************************************************************)
C3_TypingCallbacks ==
    LET k == Len(typed)
        change == [cb |-> "onChange", pin |-> typed,
                   index |-> IF k < Length THEN k ELSE Length - 1,
                   isPasting |-> FALSE, op |-> k]
        complete == [cb |-> "onComplete", pin |-> typed, index |-> Length - 1,
                     isPasting |-> FALSE, op |-> k]
    IN  /\ nOps = k
        /\ calls = IF k = 0 \/ inputTimers # << >> THEN << >>
                   ELSE IF k = Length THEN <<change, complete>>
                   ELSE <<change>>

C3_Witness ==
    /\ typed = <<"1", "2", "3", "1">>
    /\ inputTimers = << >>
    /\ Len(calls) = 2
    /\ calls[2].pin = <<"1", "2", "3", "1">>

(***************************************************************************)
(* C4: Container.clear() leaves every cell and every slot of the Code      *)
(* array empty (the joined pin is the empty string) and the focus on cell  *)
(* 0, and invokes no callback.                                             *)
(***************************************************************************)
C4_ClearResets ==
    [][OpStep("clear") =>
          /\ \A i \in Cells : value'[i] = Empty /\ valuesRef'[i] = Empty
          /\ Join(valuesRef') = Empty
          /\ focusIndex' = 0
          /\ calls' = << >>]_vars

\* cleared with a cell filled and its notification still pending
C4_Witness ==
    /\ lastOp.op = "clear"
    /\ nOps = 2
    /\ inputTimers # << >>
    /\ focusIndex = 0
    /\ mountProps.initialValue # Empty
    /\ \A i \in Cells : value[i] = Empty /\ valuesRef[i] = Empty

(***************************************************************************)
(* C5: a paste whose length differs from Length changes nothing: no cell   *)
(* value, no slot of the Code array, no timer, no focus, no callback.      *)
(***************************************************************************)
C5_WrongLengthPasteIsNoOp ==
    [][(OpStep("paste") /\ Len(lastOp'.raw) # Length) =>
          /\ UNCHANGED <<value, showSecret, valuesRef, focusIndex, inputTimers,
                         secretTimers>>
          /\ calls' = << >>]_vars

\* a text one too long was pasted into the first cell of a filled widget
C5_Witness ==
    /\ lastOp.op = "paste"
    /\ lastOp.cell = 0
    /\ Len(lastOp.raw) = Length + 1
    /\ focusIndex = 0
    /\ value[1] = <<"1">>
    /\ inputTimers = << >>

(***************************************************************************)
(* C6: a backspace on an empty cell i > 0 moves the focus to i-1 and       *)
(* changes no cell value and no slot of the Code array; on empty cell 0 it *)
(* moves no focus; on a non-empty cell it changes nothing at all (no       *)
(* signal to the Container, no focus move, no other cell's value).  The    *)
(* deletion the key causes in a non-empty cell is a change event of its    *)
(* own: it empties that cell only, and its notification moves no focus.    *)
(***************************************************************************)
C6_BackspaceRouting ==
    [][/\ OpStep("backspace") =>
             LET i == lastOp'.cell
             IN  /\ UNCHANGED <<value, valuesRef, inputTimers, secretTimers>>
                 /\ calls' = << >>
                 /\ focusIndex' = IF value[i] = Empty /\ i > 0
                                  THEN i - 1 ELSE focusIndex
       /\ (OpStep("key") /\ lastOp'.raw = Empty) =>
             /\ focusIndex' = focusIndex
             /\ valuesRef' = valuesRef
             /\ value' = [value EXCEPT ![lastOp'.cell] = Empty]
       /\ (NotifyStep /\ Head(inputTimers).value = Empty) =>
             /\ focusIndex' = focusIndex
             /\ value' = value]_vars

\* the focus went back from an empty cell while another cell stayed filled
C6_Witness ==
    /\ lastOp.op = "backspace"
    /\ lastOp.cell = 1
    /\ value[1] = Empty
    /\ focusIndex = 0
    /\ value[0] # Empty

(***************************************************************************)
(* C7: in a widget mounted with secret and secretDelay > 0 the cells take  *)
(* keystrokes; a keystroke that enters a character shows the cell unmasked *)
(* while its reveal-hide timer is pending and masked once it has run, and  *)
(* no cell ever has two reveal-hide timers pending.                        *)
(***************************************************************************)
PendingHides(i) == {k \in 1 .. Len(secretTimers) : secretTimers[k].cell = i}

C7_RevealThenHide ==
    (mountProps.secret /\ mountProps.secretDelay > 0) =>
        /\ status # "crashed"
        /\ \A i \in Cells : Cardinality(PendingHides(i)) <= 1
        /\ (status = "mounted" /\ lastOp.op = "key" /\ lastOp.raw # Empty
              /\ secretDelay > 0) =>
                showSecret[lastOp.cell] = (PendingHides(lastOp.cell) = {})

(***************************************************************************)
(* C8: when a reveal-hide timer runs on a cell whose value is empty at     *)
(* that moment, the cell stays unmasked.                                   *)
(***************************************************************************)
C8_HideOnlyIfFilled ==
    [][(HideStep /\ status = "mounted"
          /\ value[Head(secretTimers).cell] = Empty) =>
            ~showSecret'[Head(secretTimers).cell]]_vars

(***************************************************************************)
(* C9: after Container.clear(), until the next user input, no callback     *)
(* scheduled earlier runs: the Code array stays as the clear left it, no   *)
(* onChange / onComplete is invoked and no cell's display state changes.   *)
(***************************************************************************)
C9_ClearCancelsTimers ==
    [][(lastOp.op = "clear" /\ lastOp' = lastOp /\ nOps' = nOps) =>
          UNCHANGED <<valuesRef, calls, showSecret>>]_vars

(***************************************************************************)
(* C10: after the cells are removed from the tree no timer of theirs is    *)
(* pending, so no notification reaches the Container and no reveal-hide    *)
(* callback runs.                                                          *)
(***************************************************************************)
C10_UnmountCancelsTimers ==
    status = "unmounted" => (inputTimers = << >> /\ secretTimers = << >>)

(***************************************************************************)
(* C11: for a raw input of at most one character, validateValue returns in *)
(* numeric mode the character itself if it is one of 0-9 and the empty     *)
(* string otherwise, and in default-regex mode the upper-cased character   *)
(* if it is a letter or a digit and the empty string otherwise; and a      *)
(* keystroke whose character is rejected leaves a filled cell empty.       *)
(* The characters tried include both ends of each accepted range and the   *)
(* code points next to them.                                               *)
(***************************************************************************)
AsciiDigits == {"0", "1", "2", "3", "9"}
LowerLetters == {"a", "z"}
UpperLetters == {"A", "Z"}
OtherChars == {"-", "/", ":", "@", "[", "_", "{"}
Characters == AsciiDigits \cup LowerLetters \cup UpperLetters \cup OtherChars

UpperOf(c) == IF c = "a" THEN "A" ELSE IF c = "z" THEN "Z" ELSE c

ValidatesAsSpecified ==
    /\ validateValue(Empty) = Empty
    /\ \A c \in Characters :
          validateValue(<<c>>) =
             IF type = "numeric"
             THEN (IF c \in AsciiDigits THEN <<c>> ELSE Empty)
             ELSE (IF c \in AsciiDigits \cup LowerLetters \cup UpperLetters
                   THEN <<UpperOf(c)>> ELSE Empty)

RejectedKeystrokeEmpties ==
    (OpStep("key") /\ validateValue(lastOp'.raw) = Empty) =>
        value' = [value EXCEPT ![lastOp'.cell] = Empty]

C11_ValidateValue == []ValidatesAsSpecified /\ [][RejectedKeystrokeEmpties]_vars

\* an invalid character was typed over the first cell's initial character
C11_Witness ==
    /\ lastOp.op = "key"
    /\ lastOp.raw = <<"-">>
    /\ type = "text"
    /\ nOps = 1
    /\ mountProps.initialValue # Empty
    /\ value[0] = Empty
    /\ value[1] # Empty

(***************************************************************************)
(* C12: in every reachable state, the state right after construction       *)
(* included, valuesRef has exactly Length slots and each slot is empty or  *)
(* holds one character that validateValue accepts, in the form             *)
(* validateValue returns it.                                               *)
(***************************************************************************)
C12_CodeSlotsValidated ==
    status # "crashed" =>
        /\ DOMAIN valuesRef = Cells
        /\ \A i \in Cells :
              \/ valuesRef[i] = Empty
              \/ /\ Len(valuesRef[i]) = 1
                 /\ validateValue(valuesRef[i]) = valuesRef[i]

\* the callbacks `cb` that the step invokes
Invoked(cb) ==
    SelectSeq(SubSeq(calls', Len(calls) + 1, Len(calls')),
              LAMBDA c : c.cb = cb)

\* only the delivery of a notification invokes callbacks
OnlyNotifyInvokes == ~NotifyStep => (calls' = calls \/ calls' = << >>)

AllSlotsFilled(v) == \A i \in Cells : v[i] # Empty

(***************************************************************************)
(* C13: onComplete is invoked only by an aggregation step that leaves      *)
(* every slot of the Code array non-empty, with the pin equal to the       *)
(* in-order concatenation of the slots and Length characters long; and a   *)
(* notification without the paste flag that leaves all slots non-empty     *)
(* invokes onComplete exactly once.                                        *)
(***************************************************************************)
CompleteOnlyWhenFull ==
    NotifyStep =>
        LET done == Invoked("onComplete")
        IN  /\ Len(done) <= 1
            /\ \A k \in 1 .. Len(done) :
                  /\ AllSlotsFilled(valuesRef')
                  /\ done[k].pin = Join(valuesRef')
                  /\ Len(done[k].pin) = Length
            /\ (~Head(inputTimers).isPasting /\ AllSlotsFilled(valuesRef')) =>
                  Len(done) = 1

C13_CompleteOnlyWhenFull == [][OnlyNotifyInvokes /\ CompleteOnlyWhenFull]_vars

\* a keystroke's notification filled the last empty slot
C13_Witness ==
    /\ lastOp.op = "key"
    /\ inputTimers = << >>
    /\ Len(calls) = 2
    /\ calls[2].cb = "onComplete"
    /\ ~calls[2].isPasting
    /\ AllSlotsFilled(valuesRef)

(***************************************************************************)
(* C14: a notification without the paste flag invokes onChange exactly     *)
(* once, with the concatenated Code and the current index; a notification  *)
(* with the paste flag never invokes it, and nothing else does: a paste    *)
(* cascade produces no onChange at all.                                    *)
(***************************************************************************)
ChangeIffNotPasting ==
    NotifyStep =>
        LET h == Head(inputTimers)
            changed == Invoked("onChange")
        IN  IF h.isPasting
            THEN changed = << >>
            ELSE /\ Len(changed) = 1
                 /\ changed[1].pin = Join(valuesRef')
                 /\ changed[1].index =
                       IF Len(h.value) = 1 /\ h.cell < Length - 1
                       THEN h.cell + 1 ELSE h.cell

C14_ChangeIffNotPasting == [][OnlyNotifyInvokes /\ ChangeIffNotPasting]_vars

\* a keystroke's pending notification and then a whole paste cascade were
\* delivered: one onChange, from the keystroke, and the paste's onComplete
C14_Witness ==
    /\ ValidPaste
    /\ inputTimers = << >>
    /\ Len(CallsOf("onChange", 1)) = 1
    /\ CallsOf("onChange", 2) = << >>
    /\ Len(CallsOf("onComplete", 2)) = 1

(***************************************************************************)
(* C15: a newer scheduled callback replaces the older pending one of the   *)
(* same kind of the same cell: no cell has two reveal-hide timers pending, *)
(* no cell has two deferred notifications pending, and so a notification   *)
(* that is delivered is never followed by a later one of the same cell     *)
(* that was already scheduled.                                             *)
(***************************************************************************)
PendingNotifications(i) ==
    {k \in 1 .. Len(inputTimers) : inputTimers[k].cell = i}

C15_NewerReplacesOlder ==
    \A i \in Cells :
        /\ Cardinality(PendingHides(i)) <= 1
        /\ Cardinality(PendingNotifications(i)) <= 1

(***************************************************************************)
(* C16: the notifications of one paste cascade are delivered in strictly   *)
(* increasing cell order 0, 1, ..., Length-1: when the one of cell c is    *)
(* delivered, exactly those of the cells above c are still pending, so the *)
(* one of cell Length-1 is the last of its batch, and it finds every other *)
(* slot of the Code array holding the pasted character.  Notifications     *)
(* pending from earlier keystrokes do not change this.                     *)
(***************************************************************************)
\* the cells whose notification from the batch of operation n is pending
\* in ts
BatchCells(ts, n) ==
    {ts[k].cell : k \in {j \in 1 .. Len(ts) : ts[j].isPasting /\ ts[j].op = n}}

PasteOrder ==
    (NotifyStep /\ Head(inputTimers).isPasting) =>
        LET h == Head(inputTimers)
        IN  /\ \A k \in 2 .. Len(inputTimers) :
                  (inputTimers[k].isPasting /\ inputTimers[k].op = h.op) =>
                      inputTimers[k].cell > h.cell
            /\ status = "mounted" =>
                  BatchCells(inputTimers', h.op) = (h.cell + 1) .. (Length - 1)
            /\ (h.cell = Length - 1 /\ h.op = nOps) =>
                  /\ lastOp.op = "paste"
                  /\ valuesRef' = Normalized(lastOp.raw)

C16_PasteOrder == [][PasteOrder]_vars

\* a paste while a keystroke's notification was pending: the keystroke's
\* notification and then the whole cascade have been delivered
C16_Witness ==
    /\ lastOp.op = "paste"
    /\ nOps = 2
    /\ inputTimers = << >>
    /\ Len(calls) = 2
    /\ calls[1].cb = "onChange" /\ calls[1].op = 1
    /\ calls[2].cb = "onComplete" /\ calls[2].op = 2
    /\ calls[2].index = Length - 1
    /\ valuesRef = Normalized(lastOp.raw)

(***************************************************************************)
(* The event loop runs every pending setTimeout(0) task.                   *)
(***************************************************************************)
SpecFair == Spec /\ WF_vars(Notify)

(***************************************************************************)
(* C17: a keystroke or an update that changes a cell's value schedules, in *)
(* the same step, a notification of that cell carrying the new value and   *)
(* the call's paste flag, and invokes nothing in that step; the delivery   *)
(* hands that value and flag to the Container; a pending notification is   *)
(* eventually delivered unless the widget is unmounted; and clear changes  *)
(* values without scheduling or delivering anything.                       *)
(***************************************************************************)
ChangeSchedules ==
    \A i \in Cells :
        value'[i] # value[i] =>
            \/ /\ OpStep("clear")
               /\ inputTimers' = inputTimers
               /\ calls' = << >>
               /\ valuesRef' = [c \in Cells |-> Empty]
            \/ /\ OpStep("key") \/ OpStep("paste")
               /\ calls' = << >>
               /\ valuesRef' = valuesRef
               /\ Len(inputTimers') > Len(inputTimers)
               /\ \E k \in (Len(inputTimers) + 1) .. Len(inputTimers') :
                     /\ inputTimers'[k].cell = i
                     /\ inputTimers'[k].value = value'[i]
                     /\ inputTimers'[k].isPasting = (lastOp'.op = "paste")
                     /\ inputTimers'[k].op = nOps'

DeliveryCarries ==
    NotifyStep =>
        /\ valuesRef' = [valuesRef EXCEPT
                           ![Head(inputTimers).cell] = Head(inputTimers).value]
        /\ value' = value
        /\ \A k \in (Len(calls) + 1) .. Len(calls') :
              calls'[k].isPasting = Head(inputTimers).isPasting

\* a notification leaves the queue only by being delivered or at unmount
OnlyDeliveryRemoves ==
    \/ NotifyStep
    \/ status' = "unmounted"
    \/ /\ Len(inputTimers') >= Len(inputTimers)
       /\ \A k \in 1 .. Len(inputTimers) :
             /\ inputTimers'[k].cell = inputTimers[k].cell
             /\ inputTimers'[k].value = inputTimers[k].value
             /\ inputTimers'[k].isPasting = inputTimers[k].isPasting

EventuallyDelivered ==
    \A i \in Cells :
        (PendingNotifications(i) # {}) ~> (PendingNotifications(i) = {})

C17_ChangeEventuallyNotified ==
    /\ [][ChangeSchedules /\ DeliveryCarries /\ OnlyDeliveryRemoves]_vars
    /\ EventuallyDelivered

\* a rejected character emptied a filled cell; its notification is pending
C17_Witness ==
    /\ lastOp.op = "key"
    /\ validateValue(lastOp.raw) = Empty
    /\ lastOp.raw # Empty
    /\ value[lastOp.cell] = Empty
    /\ valuesRef[lastOp.cell] # Empty
    /\ \E k \in 1 .. Len(inputTimers) :
          /\ inputTimers[k].cell = lastOp.cell
          /\ inputTimers[k].value = Empty
          /\ ~inputTimers[k].isPasting

(***************************************************************************)
(* C18: whenever no deferred notification is pending, every slot of the    *)
(* Code array equals the value of its cell, from the state right after     *)
(* construction on.                                                        *)
(***************************************************************************)
C18_CodeAgreesWithCells ==
    (status = "mounted" /\ inputTimers = << >>) =>
        \A i \in Cells : valuesRef[i] = value[i]

(***************************************************************************)
(* C19: a cell whose secret prop is false is never displayed masked.       *)
(***************************************************************************)
C19_MaskedOnlyIfSecret ==
    \A i \in Cells : showSecret[i] => secret

(***************************************************************************)
(* C20: construction never fails, whatever the props, and leaves every     *)
(* cell holding the validated character of initialValue.                   *)
(***************************************************************************)
C20_MountSucceeds ==
    /\ status # "crashed"
    /\ nOps = 0 =>
          \A i \in Cells :
              value[i] = validateValue(initialChar(mountProps.initialValue, i))

=============================================================================
